---- MODULE Spec2Model ----
(***************************************************************************)
(* Model of sdl-parser's ParserConfig::parse / parse_program and of the    *)
(* sdl-ast node constructors.  Texts are sequences of characters; the      *)
(* characters that matter to the preprocessor are named below.             *)
(***************************************************************************)
EXTENDS Integers, Sequences, FiniteSets, TLC

VARIABLES tab_size, file_url, doc, call, seen, last

vars == <<tab_size, file_url, doc, call, seen, last>>

\* ---- bounds -------------------------------------------------------------
MaxLen == 3
MaxTextLen == 4
MaxTab == 2
MaxOffset == 1
MaxDepth == 2

\* ---- characters ---------------------------------------------------------
CR == "CR"
LF == "LF"
BS == "BS"
TAB == "TAB"
SP == "SP"
Chars == {CR, LF, BS, TAB, "a", "<"}

RECURSIVE TextsUpTo(_)
TextsUpTo(n) ==
  IF n = 0 THEN {<<>>}
  ELSE LET shorter == TextsUpTo(n - 1)
       IN shorter \cup {Append(t, c) : t \in {s \in shorter : Len(s) = n - 1}, c \in Chars}

Texts == TextsUpTo(MaxLen)
LongTexts == TextsUpTo(MaxTextLen)
TabSizes == 0..MaxTab
Urls == {"u1", "u2"}

\* ---- Option / Result ------------------------------------------------------
None == [tag |-> "None"]
Some(v) == [tag |-> "Some", val |-> v]
Ok(v) == [tag |-> "Ok", val |-> v]
Err(e) == [tag |-> "Err", val |-> e]
Panic(p) == [tag |-> "Panic", val |-> p]

\* ---- TextRange (crate::TextRange, not among the sources) ------------------
TextRange(s, e) == [start |-> s, end |-> e]
TextRangeDefault == TextRange(0, 0)
sum(r) == r.start + r.end
Spans == {TextRange(s, e) : s \in 0..MaxOffset, e \in 0..MaxOffset} \ {TextRange(s, e) : s \in 1..MaxOffset, e \in 0..(MaxOffset - 1)}

\* ---- sdl-ast: ast/mod.rs --------------------------------------------------
box_range(r) == IF sum(r) = 0 THEN None ELSE Some(r)

Node(kind, children, r) == [shape |-> "Node", kind |-> kind, children |-> children, r |-> r]
Leaf(kind, r) == [shape |-> "Leaf", kind |-> kind, r |-> r]
ASTDefault == Leaf([name |-> "None"], None)

kind(n) == n.kind
children(n) == IF n.shape = "Node" THEN n.children ELSE <<>>
range(n) == IF n.r.tag = "Some" THEN n.r.val ELSE TextRangeDefault

program(cs) == Node([name |-> "Program"], cs, None)
statement(cs, r) == Node([name |-> "Statement"], cs, box_range(r))
infix(op, lhs, rhs, r) == Leaf([name |-> "InfixExpression"], box_range(r))
prefix(op, rhs, r) == Leaf([name |-> "PrefixExpression"], box_range(r))
suffix(op, lhs, r) == Leaf([name |-> "SuffixExpression"], box_range(r))
list(value, r) == Node([name |-> "List"], value, box_range(r))
string(value, r) == Leaf([name |-> "String", val |-> value], box_range(r))
template(value, r) == Leaf([name |-> "Template", value |-> value], box_range(r))

\* AST::statements(codes, range) is called by parse_program but is not among
\* the sources; the result of a parse is specified to be a Program node.
statements(cs, r) == Node([name |-> "Program"], cs, box_range(r))

\* ---- preprocessing: str::replace and the chain of parse ------------------
StartsWith(s, p) == Len(s) >= Len(p) /\ SubSeq(s, 1, Len(p)) = p

RECURSIVE str_replace(_, _, _)
str_replace(s, from, to) ==
  IF Len(s) < Len(from) THEN s
  ELSE IF StartsWith(s, from)
       THEN to \o str_replace(SubSeq(s, Len(from) + 1, Len(s)), from, to)
       ELSE <<Head(s)>> \o str_replace(Tail(s), from, to)

repeat(c, n) == [i \in 1..n |-> c]

normalizeSpliceFirst(text, tab) ==
  str_replace(str_replace(str_replace(text, <<BS, LF>>, <<>>), <<CR, LF>>, <<LF>>), <<TAB>>, repeat(SP, tab))

normalizeDropBackslash(text, tab) ==
  str_replace(str_replace(str_replace(text, <<CR, LF>>, <<LF>>), <<BS>>, <<>>), <<TAB>>, repeat(SP, tab))

normalizeKeepTabs(text, tab) ==
  str_replace(str_replace(text, <<CR, LF>>, <<LF>>), <<BS, LF>>, <<>>)

normalize(text, tab) ==
  str_replace(str_replace(str_replace(text, <<CR, LF>>, <<LF>>), <<BS, LF>>, <<>>), <<TAB>>, repeat(SP, tab))

\* ---- grammar engine (sdl_pest::SDLParser, external) ----------------------
\* Blank characters are skipped, "a" and "<" each start one top-level
\* statement (a symbol expression, an unterminated tag), every other
\* character matches no production.  Accepted text ends with the EOI pair.
Blank == {SP, LF}
Tokens == {"a", "<"}

Pair(rule, s, e, str) == [rule |-> rule, span |-> TextRange(s, e), str |-> str]

RECURSIVE TopLevel(_, _)
TopLevel(text, i) ==
  IF i > Len(text) THEN <<Pair("EOI", Len(text), Len(text), <<>>)>>
  ELSE IF text[i] \in Tokens
       THEN <<Pair("statement", i - 1, i, <<text[i]>>)>> \o TopLevel(text, i + 1)
       ELSE TopLevel(text, i + 1)

Rejected(text) == {i \in 1..Len(text) : text[i] \notin Blank \cup Tokens}

SDLParser_parse(text) ==
  IF Rejected(text) # {}
  THEN LET i == CHOOSE k \in Rejected(text) : \A j \in Rejected(text) : k <= j
       IN Err([error |-> "Syntax", span |-> TextRange(i - 1, i)])
  ELSE Ok(TopLevel(text, 1))

\* ---- parser/mod.rs: parse_program ----------------------------------------
debug_cases(pair) == Panic([rule |-> pair.rule, span |-> pair.span, str |-> pair.str])

RECURSIVE parse_program_loop(_, _, _, _)
parse_program_loop(self, pairs, i, codes) ==
  IF i > Len(pairs) THEN Ok(statements(codes, TextRangeDefault))
  ELSE IF pairs[i].rule = "EOI" THEN parse_program_loop(self, pairs, i + 1, codes)
       ELSE debug_cases(pairs[i])

RECURSIVE parse_program_loopEOIChild(_, _, _, _)
parse_program_loopEOIChild(self, pairs, i, codes) ==
  IF i > Len(pairs) THEN Ok(statements(codes, TextRangeDefault))
  ELSE IF pairs[i].rule = "EOI"
       THEN parse_program_loopEOIChild(self, pairs, i + 1, Append(codes, ASTDefault))
       ELSE debug_cases(pairs[i])

parse_programEOIChild(self, pairs) == parse_program_loopEOIChild(self, pairs, 1, <<>>)

parse_programUrlRange(self, pairs) ==
  LET res == parse_program_loop(self, pairs, 1, <<>>)
  IN IF self.file_url.tag = "Some" /\ res.tag = "Ok"
     THEN Ok(list(<<string(self.file_url.val, TextRangeDefault)>>, TextRangeDefault))
     ELSE res

parse_program(self, pairs) == parse_program_loop(self, pairs, 1, <<>>)

\* ---- parser/mod.rs: parse --------------------------------------------------
\* An input (impl CanParse) answers as_url() and as_text().
Inputs(text) == {[url |-> u, text |-> t] : u \in {None} \cup {Some(x) : x \in Urls},
                                            t \in {Ok(text), Err([error |-> "Acquisition"])}}

parse_outcomeIgnoreSyntax(self, input) ==
  IF input.text.tag = "Err"
  THEN [handed |-> None, built |-> FALSE, result |-> input.text]
  ELSE LET n == normalize(input.text.val, self.tab_size)
           g == SDLParser_parse(n)
       IN [handed |-> Some(n), built |-> TRUE,
           result |-> parse_program(self, IF g.tag = "Err" THEN <<>> ELSE g.val)]

parse_outcome(self, input) ==
  IF input.text.tag = "Err"
  THEN [handed |-> None, built |-> FALSE, result |-> input.text]
  ELSE LET n == normalize(input.text.val, self.tab_size)
           g == SDLParser_parse(n)
       IN IF g.tag = "Err"
          THEN [handed |-> Some(n), built |-> FALSE, result |-> g]
          ELSE [handed |-> Some(n), built |-> TRUE, result |-> parse_program(self, g.val)]

parseUrlAfterText(input) ==
  LET url == IF input.url.tag = "Some" /\ input.text.tag = "Ok" THEN input.url ELSE file_url
      self == [tab_size |-> tab_size, file_url |-> url]
      out == parse_outcome(self, input)
      rec == [input |-> input, tab_size |-> tab_size, handed |-> out.handed,
              built |-> out.built, result |-> out.result]
  IN /\ file_url' = url
     /\ call' = Some(rec)
     /\ seen' = IF seen.tag = "None"
                THEN Some([text |-> input.text, tab_size |-> tab_size,
                           file_url |-> url, result |-> out.result])
                ELSE seen
     /\ UNCHANGED <<tab_size, doc, last>>

parse(input) ==
  LET url == IF input.url.tag = "Some" THEN input.url ELSE file_url
      self == [tab_size |-> tab_size, file_url |-> url]
      out == parse_outcome(self, input)
      rec == [input |-> input, tab_size |-> tab_size, handed |-> out.handed,
              built |-> out.built, result |-> out.result]
  IN /\ file_url' = url
     /\ call' = Some(rec)
     /\ seen' = IF seen.tag = "None"
                THEN Some([text |-> input.text, tab_size |-> tab_size,
                           file_url |-> url, result |-> out.result])
                ELSE seen
     /\ UNCHANGED <<tab_size, doc, last>>

Init ==
  /\ tab_size \in TabSizes
  /\ file_url = None
  /\ doc \in Texts
  /\ call = None
  /\ seen = None
  /\ last = None

Next == \E input \in Inputs(doc) : parse(input)

Spec == Init /\ [][Next]_vars
\* ---- parse of a plain text (an input without locator, as in tests/main.rs) --
InitText ==
  /\ tab_size \in TabSizes
  /\ file_url = None
  /\ doc \in LongTexts
  /\ call = None
  /\ seen = None
  /\ last = None

NextText == parse([url |-> None, text |-> Ok(doc)])

SpecText == InitText /\ [][NextText]_vars

\* ---- building nodes with the sdl-ast constructors -------------------------
Ops == {"+", "*"}
Values == {"a", "b"}

RECURSIVE Depth(_)
Depth(n) ==
  IF n.shape = "Leaf" \/ n.children = <<>> THEN 0
  ELSE 1 + Depth(n.children[1])

Built(ctor, op, operands, span, n) ==
  Some([ctor |-> ctor, op |-> op, operands |-> operands, span |-> span, node |-> n])

Atoms == {string(v, TextRangeDefault) : v \in Values}
Operands == Atoms \cup (IF last.tag = "Some" THEN {last.val.node} ELSE {})
ChildLists ==
  {<<>>} \cup (IF last.tag = "Some" /\ Depth(last.val.node) < MaxDepth
               THEN {<<last.val.node>>} ELSE {})

BuildString ==
  \E v \in Values, r \in Spans :
    last' = Built("string", v, <<>>, Some(r), string(v, r))

BuildInfix ==
  \E op \in Ops, lhs \in Operands, rhs \in Operands, r \in Spans :
    last' = Built("infix", op, <<lhs, rhs>>, Some(r), infix(op, lhs, rhs, r))

BuildPrefix ==
  \E op \in Ops, rhs \in Operands, r \in Spans :
    last' = Built("prefix", op, <<rhs>>, Some(r), prefix(op, rhs, r))

BuildSuffix ==
  \E op \in Ops, lhs \in Operands, r \in Spans :
    last' = Built("suffix", op, <<lhs>>, Some(r), suffix(op, lhs, r))

BuildProgram ==
  \E cs \in ChildLists :
    last' = Built("program", "", cs, None, program(cs))

BuildStatement ==
  \E cs \in ChildLists, r \in Spans :
    last' = Built("statement", "", cs, Some(r), statement(cs, r))

InitAST ==
  /\ tab_size = 0
  /\ file_url = None
  /\ doc = <<>>
  /\ call = None
  /\ seen = None
  /\ last = None

NextAST ==
  /\ UNCHANGED <<tab_size, file_url, doc, call, seen>>
  /\ \/ BuildString
     \/ BuildInfix
     \/ BuildPrefix
     \/ BuildSuffix
     \/ BuildProgram
     \/ BuildStatement

SpecAST == InitAST /\ [][NextAST]_vars

\* ---- helpers of the properties ---------------------------------------------
Contains(t, p) == \E i \in 1..(Len(t) - Len(p) + 1) : SubSeq(t, i, i + Len(p) - 1) = p

RECURSIVE CrLfToLf(_)
CrLfToLf(t) ==
  IF t = <<>> THEN <<>>
  ELSE IF Len(t) >= 2 /\ t[1] = CR /\ t[2] = LF THEN <<LF>> \o CrLfToLf(SubSeq(t, 3, Len(t)))
       ELSE <<t[1]>> \o CrLfToLf(Tail(t))

RECURSIVE Splice(_)
Splice(t) ==
  IF t = <<>> THEN <<>>
  ELSE IF Len(t) >= 2 /\ t[1] = BS /\ t[2] = LF THEN Splice(SubSeq(t, 3, Len(t)))
       ELSE <<t[1]>> \o Splice(Tail(t))

RECURSIVE ExpandTabs(_, _)
ExpandTabs(t, n) ==
  IF t = <<>> THEN <<>>
  ELSE (IF t[1] = TAB THEN [i \in 1..n |-> SP] ELSE <<t[1]>>) \o ExpandTabs(Tail(t), n)

Called == call.tag = "Some"
Handed == Called /\ call.val.handed.tag = "Some"
Statements(ps) == SelectSeq(ps, LAMBDA p : p.rule # "EOI")
Accepted == Handed /\ SDLParser_parse(call.val.handed.val).tag = "Ok"

\* C1: the text handed to the grammar engine is the input with CR+LF turned
\* into LF, then backslash+LF removed, then each tab turned into tab_size
\* spaces, in that order, for every input text and tab width.
C1_NormalizationOrder ==
  Handed => call.val.handed.val =
              ExpandTabs(Splice(CrLfToLf(call.val.input.text.val)), call.val.tab_size)

C1_Witness ==
  /\ Handed
  /\ call.val.input.text.val = <<BS, CR, LF, TAB>>
  /\ call.val.tab_size = 2
  /\ call.val.handed.val = <<SP, SP>>

\* C2: a concrete node without a translation case makes parse return an
\* "untranslated rule" error carrying the rule name and span, and parse
\* never panics.
C2_UntranslatedRuleIsError ==
  (Called /\ call.val.built) =>
     /\ call.val.result.tag # "Panic"
     /\ LET ps == Statements(SDLParser_parse(call.val.handed.val).val)
        IN ps # <<>> =>
             call.val.result = Err([error |-> "UntranslatedRule", rule |-> ps[1].rule,
                                    span |-> ps[1].span])

C4_ErrorPropagated ==
  Called =>
     /\ call.val.input.text.tag = "Err" =>
          /\ call.val.result = call.val.input.text
          /\ call.val.handed = None
          /\ ~call.val.built
     /\ (Handed /\ ~Accepted) =>
          /\ call.val.result = SDLParser_parse(normalize(call.val.input.text.val, call.val.tab_size))
          /\ call.val.result.tag = "Err"
          /\ ~call.val.built

C4_Witness ==
  /\ Handed
  /\ ~Accepted
  /\ call.val.result.tag = "Err"
  /\ call.val.result.val.error = "Syntax"
  /\ ~call.val.built

\* C5: a document with an unterminated tag at top level parses: the result
\* is Ok, holds a Template node of variant HtmlBad for the tag, and the
\* statements around it are translated as well.
C5_HtmlBadTolerated ==
  (Accepted /\ Contains(call.val.handed.val, <<"<">>)) =>
     /\ call.val.result.tag = "Ok"
     /\ LET cs == children(call.val.result.val)
            ps == Statements(SDLParser_parse(call.val.handed.val).val)
        IN /\ Len(cs) = Len(ps)
           /\ \A i \in 1..Len(ps) :
                ps[i].str = <<"<">> =>
                  /\ kind(cs[i]).name = "Template"
                  /\ kind(cs[i]).value.variant = "HtmlBad"

\* C6: a text without CR+LF, without backslash+LF and without tab is handed
\* to the grammar engine unchanged, for every tab width.
C6_CleanTextUnchanged ==
  (/\ Handed
   /\ ~Contains(call.val.input.text.val, <<CR, LF>>)
   /\ ~Contains(call.val.input.text.val, <<BS, LF>>)
   /\ ~Contains(call.val.input.text.val, <<TAB>>))
  => call.val.handed.val = call.val.input.text.val

C6_Witness ==
  /\ Handed
  /\ call.val.input.text.val = <<LF, CR, BS, "a">>
  /\ call.val.handed.val = <<LF, CR, BS, "a">>

\* C7: two nodes built one after the other by the same operator constructor
\* with the same range but a different operator or different operands are
\* different trees.
C7_OperatorNodesDistinct ==
  [][(/\ last.tag = "Some"
      /\ last'.tag = "Some"
      /\ last.val.ctor \in {"infix", "prefix", "suffix"}
      /\ last'.val.ctor = last.val.ctor
      /\ last'.val.span = last.val.span
      /\ (last'.val.op # last.val.op \/ last'.val.operands # last.val.operands))
     => last'.val.node # last.val.node]_vars

\* C8: a node holds no range exactly when it was built with a zero-length
\* span, and the range accessor of a node without range does not answer a
\* span at offset zero.
C8_RangeAbsentIffDegenerate ==
  last.tag = "Some" =>
     /\ last.val.span.tag = "Some" =>
          (last.val.node.r.tag = "None" <=> last.val.span.val.start = last.val.span.val.end)
     /\ last.val.node.r.tag = "None" => range(last.val.node).start # 0

\* C9: two parse calls with the same input text and the same tab_size return
\* the same result, whatever file_url holds and whatever calls came before.
C9_Deterministic ==
  (/\ Called
   /\ seen.tag = "Some"
   /\ call.val.input.text = seen.val.text
   /\ call.val.tab_size = seen.val.tab_size)
  => call.val.result = seen.val.result

C9_Witness ==
  /\ Called
  /\ seen.tag = "Some"
  /\ call.val.input.text = seen.val.text
  /\ call.val.input.text.tag = "Ok"
  /\ call.val.result.tag = "Ok"
  /\ seen.val.file_url = None
  /\ file_url = Some("u2")
  /\ call.val.result = seen.val.result

\* C10 (as claimed): the text handed to the grammar engine has no CR+LF, no
\* backslash+LF and no tab, and normalizing it again returns it unchanged.
C10_OutputNormalized ==
  Handed =>
     /\ ~Contains(call.val.handed.val, <<CR, LF>>)
     /\ ~Contains(call.val.handed.val, <<BS, LF>>)
     /\ ~Contains(call.val.handed.val, <<TAB>>)
     /\ normalize(call.val.handed.val, call.val.tab_size) = call.val.handed.val

\* C10 (amended): the text handed to the grammar engine has no tab, and when
\* it has neither CR+LF nor backslash+LF, normalizing it again returns it
\* unchanged.
C10_OutputNoTab ==
  Handed =>
     /\ ~Contains(call.val.handed.val, <<TAB>>)
     /\ (/\ ~Contains(call.val.handed.val, <<CR, LF>>)
         /\ ~Contains(call.val.handed.val, <<BS, LF>>))
        => normalize(call.val.handed.val, call.val.tab_size) = call.val.handed.val

C10_Witness ==
  /\ Handed
  /\ call.val.input.text.val = <<TAB, BS, LF, "a">>
  /\ call.val.tab_size = 2
  /\ call.val.handed.val = <<SP, SP, "a">>
  /\ normalize(call.val.handed.val, call.val.tab_size) = call.val.handed.val
\* C11: a parse call leaves tab_size as it was and sets file_url to the
\* locator of its input when the input has one, also when the call returns
\* an error, and leaves file_url as it was when the input has none.
C11_OnlyFileUrlChanges ==
  [][/\ tab_size' = tab_size
     /\ call'.tag = "Some"
     /\ call'.val.tab_size = tab_size
     /\ call'.val.input.url.tag = "Some" => file_url' = call'.val.input.url
     /\ call'.val.input.url.tag = "None" => file_url' = file_url]_vars

C11_Witness ==
  /\ Called
  /\ seen.tag = "Some"
  /\ seen.val.file_url = Some("u1")
  /\ seen.val.result.tag = "Err"
  /\ seen.val.text.tag = "Err"
  /\ file_url = Some("u2")
  /\ call.val.input.url = None
  /\ call.val.result.tag = "Err"
====
